---------------------------- MODULE Spec2Model ----------------------------
(***************************************************************************)
(* A model of src/main.py of Python-PDF-Tools: the operations of the       *)
(* command-line tool, each as the sequential loop the code runs.           *)
(*                                                                         *)
(* One process runs one operation (command).  Each operation has its own   *)
(* specification: SpecExtract (extract_images_with_quality_filter),        *)
(* SpecRotate (rotate_images_in_directory), SpecCreate                     *)
(* (create_pdf_from_images) and SpecAdv (compress_pdf_advanced), in which  *)
(* the function is called on its own.  SpecMain is the command line: main  *)
(* parses the arguments and calls the operation.  SpecParams is the runs   *)
(* in which a parameter is validated.                                      *)
(***************************************************************************)
EXTENDS Integers, Sequences, FiniteSets, TLC

VARIABLES
    command,        \* the operation this process runs
    pc,             \* position in the operation's code
    ret,            \* what the operation returned: [tag, n]
    path_exists,    \* os.path.exists of the positional path argument
    path_given,     \* the positional path argument is there (args.path is not None)
    in_main,        \* the operation is called by main
    reported,       \* the messages printed about the arguments, by the checks
                    \* that come before the work of the operation
    compression_level,
    \* ---- extract_images_with_quality_filter
    readable,       \* fitz.open(pdf_path) succeeds
    pdf_document,   \* the opened PDF: a sequence of pages, each a sequence of images
    min_width, min_height,
    page_num,       \* 0-based page index of the loop
    img_index,      \* 0-based image index of the inner loop
    image_count,
    saved,          \* the pix.save calls made so far, in order
    skipped,        \* the (page_num, img_index) pairs reported as skipped
    \* ---- the directory of rotate_images_in_directory and create_pdf_from_images
    directory,      \* the files of directory_path, in the order the listing gives them
    directory0,     \* the directory as it was when the operation was called
    image_files,    \* the names glob found, in the order the loop takes them
    pos,            \* 1-based position of the loop in its list
    \* ---- rotate_images_in_directory
    direction, overwrite,
    angle, direction_text,
    rotated_count,
    rotated_ok,     \* positions of image_files whose rotation was saved
    errors,         \* positions of the loop's list reported as "Error rotating ..."
                    \* (rotate) or "Error processing image ..." (create_pdf), and
                    \* the pages at which compress_pdf_advanced raised
    \* ---- create_pdf_from_images (its new document is pdf_document)
    page_images,    \* the (page_num, image_path) pairs, sorted
    output_file,    \* the file output_pdf names: absent, saved or partial
    \* ---- compress_pdf_advanced (its input document is pdf_document)
    image_quality, max_width, max_height,
    new_pdf         \* the document the rendered pages are put in

extractVars == <<readable, pdf_document, min_width, min_height, page_num,
                 img_index, image_count, saved, skipped>>

dirVars == <<directory, directory0, image_files, pos, errors>>

rotateVars == <<direction, overwrite, angle, direction_text, rotated_count,
                rotated_ok>>

createVars == <<page_images, output_file>>

advVars == <<image_quality, max_width, max_height, new_pdf>>

\* arguments that no operation assigns
argVars == <<path_given, in_main, compression_level>>

vars == <<command, pc, ret, path_exists, reported, argVars, extractVars,
          dirVars, rotateVars, createVars, advVars>>

\* what each operation leaves alone
notExtractVars == <<dirVars, rotateVars, createVars, advVars, reported,
                    argVars>>
notRotateVars == <<extractVars, createVars, advVars, reported, argVars>>
notCreateVars == <<readable, min_width, min_height, page_num, img_index,
                   image_count, saved, skipped, rotateVars, advVars,
                   reported, argVars>>
notAdvVars == <<min_width, min_height, img_index, image_count, saved, skipped,
                directory, directory0, image_files, pos, rotateVars,
                page_images, reported, argVars>>

----------------------------------------------------------------------------
(* Bounds of the model *)

\* pages of the input PDF of extract
MaxPages == 2
\* images embedded in the input PDF of extract, all pages together
MaxImages == 3
\* files in the directory given to rotate and to create_pdf
MaxFiles == 3
\* pages of the input PDF of compress_pdf_advanced
MaxAdvPages == 2

----------------------------------------------------------------------------
(* Return values *)

Running == [tag |-> "running", n |-> 0]
RetInt(n) == [tag |-> "int", n |-> n]
RetNone == [tag |-> "None", n |-> 0]
RetPath == [tag |-> "path", n |-> 0]

\* the states of an output file: not there, written whole, or left by a save
\* that raised
Absent == [state |-> "absent", pages |-> <<>>]
Saved(pages) == [state |-> "saved", pages |-> pages]
Partial == [state |-> "partial", pages |-> <<>>]

RECURSIVE SumSeq(_)
SumSeq(s) == IF s = <<>> THEN 0 ELSE Head(s) + SumSeq(Tail(s))

----------------------------------------------------------------------------
(* extract_images_with_quality_filter, src/main.py:80-126 *)

\* the thresholds the runs are given: the command line's default (50) and the
\* function's default (100)
Thresholds == {50, 100}
\* pixel widths and heights of the embedded images
ImageDims == {50, 100}
Images == [width : ImageDims, height : ImageDims]

\* the number of images on each page, for every document within the bounds
Shapes == {s \in UNION {[1..n -> 0..MaxImages] : n \in 0..MaxPages} :
              SumSeq(s) <= MaxImages}

\* the document whose page p holds s[p] images, taken in order from flat
Nest(s, flat) ==
    [p \in 1..Len(s) |->
        [i \in 1..s[p] |-> flat[SumSeq(SubSeq(s, 1, p - 1)) + i]]]

\* os.path.splitext(os.path.basename(pdf_path))[0]
pdf_name == "doc"

\* the mutant: the page number of the file name is the 0-based loop index
ImgFilename0(name, p, i) == <<name, "_page", p, "_img", i + 1, ".png">>

\* f"{pdf_name}_page{page_num + 1}_img{img_index + 1}.png"
ImgFilename(name, p, i) == <<name, "_page", p + 1, "_img", i + 1, ".png">>

\* the mutant: one dimension reaching its threshold is enough
QualifiesEither(pix, mw, mh) == pix.width >= mw \/ pix.height >= mh

\* pix.width >= min_width and pix.height >= min_height
Qualifies(pix, mw, mh) == pix.width >= mw /\ pix.height >= mh

ExtractInputs ==
    /\ command = "extract"
    /\ ret = Running
    /\ path_exists = TRUE
    /\ readable \in BOOLEAN
    /\ \E s \in Shapes : \E flat \in [1..SumSeq(s) -> Images] :
           pdf_document = Nest(s, flat)
    /\ min_width \in Thresholds
    /\ min_height \in Thresholds
    /\ page_num = 0
    /\ img_index = 0
    /\ image_count = 0
    /\ saved = <<>>
    /\ skipped = {}
    /\ directory = <<>> /\ directory0 = <<>> /\ image_files = <<>> /\ pos = 1
    /\ direction = "anticlockwise" /\ overwrite = TRUE
    /\ angle = 0 /\ direction_text = ""
    /\ rotated_count = 0 /\ rotated_ok = {} /\ errors = {}
    /\ page_images = <<>> /\ output_file = Absent
    /\ image_quality = 30 /\ max_width = 1200 /\ max_height = 1600
    /\ new_pdf = <<>>
    /\ compression_level = "medium"

\* extract_images_with_quality_filter called on its own
InitExtract ==
    /\ pc = "extract_start"
    /\ path_given = TRUE
    /\ in_main = FALSE
    /\ reported = {}
    /\ ExtractInputs

\* lines 93-98: os.makedirs, fitz.open, image_count = 0.  fitz.open raises on
\* a file that is no PDF, and nothing catches it.
ExtractOpen ==
    /\ command = "extract" /\ pc = "extract_start"
    /\ pc' = IF readable THEN "extract_page" ELSE "raised"
    /\ page_num' = 0
    /\ image_count' = 0
    /\ UNCHANGED <<command, ret, path_exists, readable, pdf_document,
                   min_width, min_height, img_index, saved, skipped,
                   notExtractVars>>

\* lines 100-102: for page_num in range(page_count): image_list = ...
ExtractPage ==
    /\ command = "extract" /\ pc = "extract_page"
    /\ page_num < Len(pdf_document)
    /\ img_index' = 0
    /\ pc' = "extract_image"
    /\ UNCHANGED <<command, ret, path_exists, readable, pdf_document,
                   min_width, min_height, page_num, image_count, saved, skipped,
                   notExtractVars>>

\* lines 104-123: one image of the page: saved when it qualifies, else skipped
ExtractImage ==
    /\ command = "extract" /\ pc = "extract_image"
    /\ img_index < Len(pdf_document[page_num + 1])
    /\ LET pix == pdf_document[page_num + 1][img_index + 1]
       IN  IF Qualifies(pix, min_width, min_height)
           THEN /\ saved' = Append(saved,
                        [name |-> ImgFilename(pdf_name, page_num, img_index),
                         width |-> pix.width, height |-> pix.height])
                /\ image_count' = image_count + 1
                /\ UNCHANGED skipped
           ELSE /\ skipped' = skipped \cup {<<page_num, img_index>>}
                /\ UNCHANGED <<saved, image_count>>
    /\ img_index' = img_index + 1
    /\ UNCHANGED <<command, pc, ret, path_exists, readable, pdf_document,
                   min_width, min_height, page_num, notExtractVars>>

\* the inner loop is exhausted: the next page
ExtractNextPage ==
    /\ command = "extract" /\ pc = "extract_image"
    /\ img_index >= Len(pdf_document[page_num + 1])
    /\ page_num' = page_num + 1
    /\ pc' = "extract_page"
    /\ UNCHANGED <<command, ret, path_exists, readable, pdf_document,
                   min_width, min_height, img_index, image_count, saved, skipped,
                   notExtractVars>>

\* lines 125-126: pdf_document.close(); return image_count
ExtractReturn ==
    /\ command = "extract" /\ pc = "extract_page"
    /\ page_num >= Len(pdf_document)
    /\ pc' = "returned"
    /\ ret' = RetInt(image_count)
    /\ UNCHANGED <<command, path_exists, extractVars, notExtractVars>>

NextExtract ==
    \/ ExtractOpen
    \/ ExtractPage
    \/ ExtractImage
    \/ ExtractNextPage
    \/ ExtractReturn

SpecExtract == InitExtract /\ [][NextExtract]_vars

\* the (page, image-index) pairs of the document, both 1-based
Pairs == UNION {{p} \X (1..Len(pdf_document[p])) : p \in 1..Len(pdf_document)}

\* the pix.save calls that wrote the file named nm
SavesOf(nm) == {k \in 1..Len(saved) : saved[k].name = nm}

\* C1: when extract_images_with_quality_filter returns, every (page, image)
\* pair whose image is at least min_width wide and min_height high has been
\* written exactly once, as {base}_page{p}_img{i}.png with p and i 1-based,
\* nothing else has been written, and the integer returned is the number of
\* files written.
C1_OneFilePerQualifyingImage ==
    (command = "extract" /\ pc = "returned") =>
        /\ \A pr \in Pairs :
              LET img == pdf_document[pr[1]][pr[2]]
                  nm  == <<"doc", "_page", pr[1], "_img", pr[2], ".png">>
              IN  Cardinality(SavesOf(nm)) =
                     IF img.width >= min_width /\ img.height >= min_height
                     THEN 1 ELSE 0
        /\ \A k \in 1..Len(saved) :
              \E pr \in Pairs :
                 saved[k].name = <<"doc", "_page", pr[1], "_img", pr[2], ".png">>
        /\ ret = RetInt(Len(saved))
        /\ ret.n = Cardinality({saved[k].name : k \in 1..Len(saved)})

\* a run that returned after writing two files of one page and skipping an image
C1_Witness ==
    /\ command = "extract" /\ pc = "returned"
    /\ Len(saved) >= 2
    /\ saved[1].name[3] = 2 /\ saved[2].name[3] = 2
    /\ skipped # {}

\* C2: an image narrower than min_width or lower than min_height is never
\* written and never counted: at every point of the run each file written is
\* the file of an image that meets both thresholds, and image_count is the
\* number of files written.
C2_SmallImagesNeverWritten ==
    command = "extract" =>
        /\ \A k \in 1..Len(saved) :
              LET p == saved[k].name[3]
                  i == saved[k].name[5]
              IN  /\ <<p, i>> \in Pairs
                  /\ pdf_document[p][i].width >= min_width
                  /\ pdf_document[p][i].height >= min_height
                  /\ saved[k].width = pdf_document[p][i].width
                  /\ saved[k].height = pdf_document[p][i].height
        /\ image_count = Len(saved)
        /\ pc = "returned" => ret.n = Len(saved)

\* a page holding an image that is wide enough but too low, next to one that
\* qualifies: the first is skipped, the second written
C2_Witness ==
    /\ command = "extract" /\ pc = "returned"
    /\ \E p \in 1..Len(pdf_document) :
          /\ Len(pdf_document[p]) = 2
          /\ pdf_document[p][1].width >= min_width
          /\ pdf_document[p][1].height < min_height
          /\ <<p - 1, 0>> \in skipped
          /\ Qualifies(pdf_document[p][2], min_width, min_height)
    /\ Len(saved) >= 1

----------------------------------------------------------------------------
(* The directory and glob, src/main.py:155-162 and 212-218 *)

\* a file name: os.path.splitext gives (stem, "." + ext); the stem is kept as
\* the sequence of its parts
Name(stem, ext) == [stem |-> stem, ext |-> ext]

\* image_extensions, without the "*." of the pattern
image_extensions == <<"png", "jpg", "jpeg", "gif", "bmp", "tiff", "webp">>

\* str.upper on the extensions of image_extensions
Upper(e) ==
    CASE e = "png" -> "PNG" [] e = "jpg" -> "JPG" [] e = "jpeg" -> "JPEG"
      [] e = "gif" -> "GIF" [] e = "bmp" -> "BMP" [] e = "tiff" -> "TIFF"
      [] e = "webp" -> "WEBP" [] OTHER -> e

\* glob.glob(os.path.join(directory_path, "*." + e)): the names of the listing
\* whose extension is e, letter for letter (fnmatch is case-sensitive on POSIX)
GlobExt(dir, e) ==
    LET hit == SelectSeq(dir, LAMBDA f : f.name.ext = e)
    IN  [j \in 1..Len(hit) |-> hit[j].name]

\* lines 160-162: for each extension, the lower-case pattern then the
\* upper-case one
RECURSIVE GlobImages(_, _)
GlobImages(dir, exts) ==
    IF exts = <<>> THEN <<>>
    ELSE GlobExt(dir, Head(exts)) \o GlobExt(dir, Upper(Head(exts)))
            \o GlobImages(dir, Tail(exts))

\* position of the file named nm in the directory, 0 when there is none
Lookup(dir, nm) ==
    IF \E j \in 1..Len(dir) : dir[j].name = nm
    THEN CHOOSE j \in 1..Len(dir) : dir[j].name = nm
    ELSE 0

\* writing data to the file named nm: in place when the file exists, else a
\* new file of the directory
WriteFile(dir, nm, data) ==
    LET j == Lookup(dir, nm)
    IN  IF j = 0 THEN Append(dir, [name |-> nm, data |-> data])
        ELSE [dir EXCEPT ![j].data = data]

\* sequences without repetition of at most n elements of S
Listings(S, n) ==
    {s \in UNION {[1..m -> S] : m \in 0..n} :
        \A i, j \in 1..Len(s) : i # j => s[i] # s[j]}

----------------------------------------------------------------------------
(* rotate_images_in_directory, src/main.py:128-194 *)

\* the names a directory given to rotate is made of: an image, the file an
\* earlier run with --no-overwrite left beside it, an upper-case extension, a
\* mixed-case extension and a file that is no image
RotateNames ==
    { Name(<<"a">>, "png"),
      Name(<<"a", "_rotated_", "anticlockwise">>, "png"),
      Name(<<"b">>, "JPG"),
      Name(<<"c">>, "Png"),
      Name(<<"n">>, "txt") }

\* the direction arguments of the runs
Directions == {"CW", "anticlockwise", "sideways"}

\* str.lower on the direction arguments
Lower(d) == CASE d = "CW" -> "cw" [] OTHER -> d

\* line 145 and line 148
IsClockwise(d) == Lower(d) \in {"clockwise", "cw"}
IsAnticlockwise(d) ==
    Lower(d) \in {"anticlockwise", "counterclockwise", "acw", "ccw"}

\* img.rotate(angle, expand=True): a positive angle turns anticlockwise; the
\* content of a file is the image it was made from and how far it is turned
Rotate(data, a) == [data EXCEPT !.angle = (data.angle + a) % 360]

\* line 184-185: name, ext = os.path.splitext(image_path);
\* f"{name}_rotated_{direction_text}{ext}"
NewPath(nm, text) == Name(nm.stem \o <<"_rotated_", text>>, nm.ext)

\* where the rotated image of image_path is saved, lines 179-186
SavePath(nm, ow, text) == IF ow THEN nm ELSE NewPath(nm, text)

RotateInputs ==
    /\ command = "rotate"
    /\ ret = Running
    /\ \E names \in Listings(RotateNames, MaxFiles) :
       \E ok \in [1..Len(names) -> BOOLEAN] :
           directory = [j \in 1..Len(names) |->
                           [name |-> names[j],
                            data |-> [ok |-> ok[j], img |-> names[j].stem,
                                      angle |-> 0]]]
    \* a directory that does not exist holds no files
    /\ path_exists \in (IF directory = <<>> THEN BOOLEAN ELSE {TRUE})
    /\ directory0 = directory
    /\ direction \in Directions
    /\ overwrite \in BOOLEAN
    /\ image_files = <<>> /\ pos = 1
    /\ angle = 0 /\ direction_text = ""
    /\ rotated_count = 0 /\ rotated_ok = {} /\ errors = {}
    /\ page_images = <<>> /\ output_file = Absent
    /\ image_quality = 30 /\ max_width = 1200 /\ max_height = 1600
    /\ new_pdf = <<>>
    /\ readable = TRUE /\ pdf_document = <<>>
    /\ min_width = 50 /\ min_height = 50
    /\ page_num = 0 /\ img_index = 0 /\ image_count = 0
    /\ saved = <<>> /\ skipped = {}
    /\ compression_level = "medium"

\* rotate_images_in_directory called on its own
InitRotate ==
    /\ pc = "rotate_start"
    /\ path_given = TRUE
    /\ in_main = FALSE
    /\ reported = {}
    /\ RotateInputs

\* lines 140-169: the checks before the loop, each returning 0, then the
\* list of files and rotated_count = 0
RotateStart ==
    /\ command = "rotate" /\ pc = "rotate_start"
    /\ LET found == GlobImages(directory, image_extensions)
           valid == IsClockwise(direction) \/ IsAnticlockwise(direction)
       IN  /\ angle' = IF ~path_exists THEN angle
                       ELSE IF IsClockwise(direction) THEN -90
                       ELSE IF IsAnticlockwise(direction) THEN 90 ELSE angle
           /\ direction_text' =
                  IF ~path_exists THEN direction_text
                  ELSE IF IsClockwise(direction) THEN "clockwise"
                  ELSE IF IsAnticlockwise(direction) THEN "anticlockwise"
                  ELSE direction_text
           /\ image_files' = IF path_exists /\ valid THEN found ELSE image_files
           /\ IF path_exists /\ valid /\ found # <<>>
              THEN pc' = "rotate_loop" /\ UNCHANGED ret
              ELSE pc' = "returned" /\ ret' = RetInt(0)
           /\ reported' = IF ~path_exists
                           THEN reported \cup {"Directory not found"}
                           ELSE IF ~valid
                           THEN reported \cup {"Invalid direction"}
                           ELSE reported
    /\ pos' = 1
    /\ rotated_count' = 0
    /\ UNCHANGED <<command, path_exists, directory, directory0, direction,
                   overwrite, rotated_ok, errors, extractVars, createVars,
                   advVars, argVars>>

\* lines 171-189: the image opens, is rotated and saved; rotated_count += 1
RotateImage ==
    /\ command = "rotate" /\ pc = "rotate_loop"
    /\ pos <= Len(image_files)
    /\ LET image_path == image_files[pos]
           img == directory[Lookup(directory, image_path)].data
       IN  /\ img.ok
           /\ directory' = WriteFile(directory,
                               SavePath(image_path, overwrite, direction_text),
                               Rotate(img, angle))
    /\ rotated_count' = rotated_count + 1
    /\ rotated_ok' = rotated_ok \cup {pos}
    /\ pos' = pos + 1
    /\ UNCHANGED <<command, pc, ret, path_exists, directory0, image_files,
                   direction, overwrite, angle, direction_text, errors,
                   notRotateVars>>

\* the mutant: the first file that fails ends the loop
RotateOpenFailsBreak ==
    /\ command = "rotate" /\ pc = "rotate_loop"
    /\ pos <= Len(image_files)
    /\ ~directory[Lookup(directory, image_files[pos])].data.ok
    /\ errors' = errors \cup {pos}
    /\ pos' = Len(image_files) + 1
    /\ UNCHANGED <<command, pc, ret, path_exists, directory, directory0,
                   image_files, direction, overwrite, angle, direction_text,
                   rotated_count, rotated_ok, notRotateVars>>

\* lines 174-176 and 191-192: Image.open or img.rotate raises on a file that
\* is no readable image; the error is printed and the loop goes on
RotateOpenFails ==
    /\ command = "rotate" /\ pc = "rotate_loop"
    /\ pos <= Len(image_files)
    /\ ~directory[Lookup(directory, image_files[pos])].data.ok
    /\ errors' = errors \cup {pos}
    /\ pos' = pos + 1
    /\ UNCHANGED <<command, pc, ret, path_exists, directory, directory0,
                   image_files, direction, overwrite, angle, direction_text,
                   rotated_count, rotated_ok, notRotateVars>>

\* lines 180/186 and 191-192: rotated_img.save raises; the file it was
\* writing is left as it was or left truncated, rotated_count is not touched
RotateSaveFails ==
    /\ command = "rotate" /\ pc = "rotate_loop"
    /\ pos <= Len(image_files)
    /\ LET image_path == image_files[pos]
           img == directory[Lookup(directory, image_path)].data
           dest == SavePath(image_path, overwrite, direction_text)
       IN  /\ img.ok
           /\ \/ UNCHANGED directory
              \/ directory' = WriteFile(directory, dest,
                                        [ok |-> FALSE, img |-> dest.stem,
                                         angle |-> 0])
    /\ errors' = errors \cup {pos}
    /\ pos' = pos + 1
    /\ UNCHANGED <<command, pc, ret, path_exists, directory0, image_files,
                   direction, overwrite, angle, direction_text, rotated_count,
                   rotated_ok, notRotateVars>>

\* line 194: return rotated_count
RotateReturn ==
    /\ command = "rotate" /\ pc = "rotate_loop"
    /\ pos > Len(image_files)
    /\ pc' = "returned"
    /\ ret' = RetInt(rotated_count)
    /\ UNCHANGED <<command, path_exists, dirVars, rotateVars, notRotateVars>>

NextRotate ==
    \/ RotateStart
    \/ RotateImage
    \/ RotateOpenFails
    \/ RotateSaveFails
    \/ RotateReturn

SpecRotate == InitRotate /\ [][NextRotate]_vars

\* the files of the directory that were not there when the operation was called
NewFiles == {j \in 1..Len(directory) : Lookup(directory0, directory[j].name) = 0}

\* C3: with overwrite=False, once every selected file has been rotated and
\* saved, every file the directory held before the call is still there with
\* the content it had, and each source image has exactly one new file beside
\* it, named {name}_rotated_{direction}{ext}.
C3_NoOverwriteKeepsEveryFile ==
    (command = "rotate" /\ pc = "returned" /\ ~overwrite
        /\ rotated_ok = 1..Len(image_files)) =>
        /\ \A j \in 1..Len(directory0) :
              /\ j <= Len(directory)
              /\ directory[j] = directory0[j]
        /\ \A i \in 1..Len(image_files) :
              Cardinality({j \in NewFiles : directory[j].name =
                              NewPath(image_files[i], direction_text)}) = 1

\* C4: a file of the batch that fails to open, rotate or save is reported and
\* the batch goes on: when rotate_images_in_directory returns after its loop,
\* every selected file has been taken exactly once, either rotated and saved
\* or reported as an error (in place, every file that was unreadable is among
\* the reported), and the count returned is the number of files rotated and
\* saved.
C4_FailureDoesNotStopBatch ==
    (command = "rotate" /\ pc = "returned" /\ image_files # <<>>) =>
        /\ rotated_ok \cup errors = 1..Len(image_files)
        /\ rotated_ok \cap errors = {}
        /\ overwrite =>
              \A i \in 1..Len(image_files) :
                 ~directory0[Lookup(directory0, image_files[i])].data.ok
                     => i \in errors
        /\ ret = RetInt(Cardinality(rotated_ok))

\* a batch whose first file failed and whose later file was rotated and saved
C4_Witness ==
    /\ command = "rotate" /\ pc = "returned"
    /\ Len(image_files) >= 2
    /\ 1 \in errors
    /\ 2 \in rotated_ok
    /\ ret.n = 1

\* the direction is none of the words of lines 145 and 148, in any case
UnknownDirection ==
    Lower(direction) \notin {"clockwise", "cw", "anticlockwise",
                             "counterclockwise", "acw", "ccw"}

\* an extension in lower case
LowerExt(e) ==
    IF \E j \in 1..Len(image_extensions) : e = Upper(image_extensions[j])
    THEN image_extensions[CHOOSE j \in 1..Len(image_extensions) :
                              e = Upper(image_extensions[j])]
    ELSE IF e = "Png" THEN "png" ELSE e

\* the extension is one of image_extensions in some letter case
IsImageExtAnyCase(e) ==
    \E j \in 1..Len(image_extensions) : LowerExt(e) = image_extensions[j]

\* C15: once the directory and the direction are accepted, the list the
\* loop goes through holds every file of the directory whose extension is
\* one of png, jpg, jpeg, gif, bmp, tiff, webp in any letter case, mixed
\* case included, each of them once, and no other file.
C15_EveryImageFileListedOnce ==
    (command = "rotate" /\ pc \in {"rotate_loop", "returned"}
     /\ path_exists /\ ~UnknownDirection) =>
        /\ \A j \in 1..Len(directory0) :
              IsImageExtAnyCase(directory0[j].name.ext) =>
                  Cardinality({i \in 1..Len(image_files) :
                                  image_files[i] = directory0[j].name}) = 1
        /\ \A i \in 1..Len(image_files) :
              \E j \in 1..Len(directory0) :
                  /\ directory0[j].name = image_files[i]
                  /\ IsImageExtAnyCase(directory0[j].name.ext)

----------------------------------------------------------------------------
(* create_pdf_from_images, src/main.py:196-311 *)

\* the decimal digits as the parts of a name
Digits == {"0", "1", "2", "3", "4", "5", "6", "7", "8", "9"}

DigitVal(d) ==
    CASE d = "0" -> 0 [] d = "1" -> 1 [] d = "2" -> 2 [] d = "3" -> 3
      [] d = "4" -> 4 [] d = "5" -> 5 [] d = "6" -> 6 [] d = "7" -> 7
      [] d = "8" -> 8 [] d = "9" -> 9

\* the parts of a name that begin with an underscore
UnderscoreParts == {"_", "_page", "_PAGE", "_img", "_rotated_"}

\* re.IGNORECASE on the literal "_page" of the pattern
LowerPart(t) == IF t = "_PAGE" THEN "_page" ELSE t

\* the "_page" of page_pattern, compiled with re.IGNORECASE (line 226)
IsPageTag(t) == LowerPart(t) = "_page"

\* \d+ : the length of the longest run of digits of stem that starts at i
RECURSIVE DigitRun(_, _)
DigitRun(stem, i) ==
    IF i <= Len(stem) /\ stem[i] \in Digits
    THEN 1 + DigitRun(stem, i + 1) ELSE 0

\* the mutant: the underscore after the digits is not asked for
MatchAtNoUnderscore(stem, i) ==
    /\ IsPageTag(stem[i])
    /\ DigitRun(stem, i + 1) >= 1

\* _page(\d+)_ matches at part i of the stem: the tag, at least one digit, and
\* an underscore right after the digits
MatchAt(stem, i) ==
    /\ IsPageTag(stem[i])
    /\ LET n == DigitRun(stem, i + 1)
       IN  /\ n >= 1
           /\ i + n + 1 <= Len(stem)
           /\ stem[i + n + 1] \in UnderscoreParts

\* \.(png|jpg|jpeg|gif|bmp|tiff|webp)$ with re.IGNORECASE, on the extensions
\* glob can return
ExtMatches(ext) ==
    \E j \in 1..Len(image_extensions) :
        ext = image_extensions[j] \/ ext = Upper(image_extensions[j])

\* the mutant: int() reads the first digit only
RECURSIVE IntOfFirst(_)
IntOfFirst(ds) == IF ds = <<>> THEN 0 ELSE DigitVal(Head(ds))

\* int(match.group(1))
RECURSIVE IntOf(_)
IntOf(ds) ==
    IF ds = <<>> THEN 0
    ELSE IntOf(SubSeq(ds, 1, Len(ds) - 1)) * 10 + DigitVal(ds[Len(ds)])

\* page_pattern.match(filename), lines 226-233: the leading .* is greedy, so
\* the group is taken at the last place of the name where the rest of the
\* pattern matches; page is int(match.group(1))
PageMatch(nm) ==
    LET at == {i \in 1..Len(nm.stem) : MatchAt(nm.stem, i)}
    IN  IF at = {} \/ ~ExtMatches(nm.ext)
        THEN [matched |-> FALSE, page |-> 0]
        ELSE LET i == CHOOSE x \in at : \A y \in at : y <= x
             IN  [matched |-> TRUE,
                  page |-> IntOf(SubSeq(nm.stem, i + 1,
                                        i + DigitRun(nm.stem, i + 1)))]

\* lines 228-236: the (page_num, image_path) pair of every file that matches
RECURSIVE MatchingPairs(_)
MatchingPairs(files) ==
    IF files = <<>> THEN <<>>
    ELSE LET m == PageMatch(Head(files))
         IN  (IF m.matched
              THEN <<[page_num |-> m.page, image_path |-> Head(files)]>>
              ELSE <<>>) \o MatchingPairs(Tail(files))

\* one step of list.sort(key=lambda x: x[0]): e goes after every element
\* whose page number is at most its own (the sort is stable)
InsertSorted(e, sorted) ==
    LET before == SelectSeq(sorted, LAMBDA x : x.page_num <= e.page_num)
        after  == SelectSeq(sorted, LAMBDA x : x.page_num > e.page_num)
    IN  before \o <<e>> \o after

\* page_images.sort(key=lambda x: x[0]), line 244
RECURSIVE SortPages(_)
SortPages(pairs) ==
    IF pairs = <<>> THEN <<>>
    ELSE InsertSorted(pairs[Len(pairs)],
                      SortPages(SubSeq(pairs, 1, Len(pairs) - 1)))

\* lines 212-244: the sorted (page_num, image_path) pairs of a directory
PageImages(dir) == SortPages(MatchingPairs(GlobImages(dir, image_extensions)))

\* the names a directory given to create_pdf is made of
CreateNames ==
    { Name(<<"a", "_page", "2", "_", "x">>, "png"),
      Name(<<"a", "_page", "1", "0", "_", "x">>, "png"),
      Name(<<"b", "_page", "2", "_", "y">>, "JPG"),
      Name(<<"d", "_PAGE", "1", "_", "x">>, "png"),
      Name(<<"c", "_page", "3">>, "png") }

\* where the try block of an image raises, if anywhere: in Image.open,
\* convert or save (decode), in new_page, or in insert_image
Faults == {"none", "decode", "new_page", "insert_image"}

CreateInputs ==
    /\ command = "create_pdf"
    /\ ret = Running
    /\ \E names \in Listings(CreateNames, MaxFiles) :
       \E fault \in [1..Len(names) -> Faults] :
           directory = [j \in 1..Len(names) |->
                           [name |-> names[j],
                            data |-> [fault |-> fault[j],
                                      img |-> names[j].stem]]]
    /\ path_exists \in (IF directory = <<>> THEN BOOLEAN ELSE {TRUE})
    /\ directory0 = directory
    /\ image_files = <<>> /\ pos = 1 /\ errors = {}
    /\ page_images = <<>> /\ output_file = Absent
    /\ image_quality = 30 /\ max_width = 1200 /\ max_height = 1600
    /\ new_pdf = <<>>
    /\ pdf_document = <<>>
    /\ direction = "anticlockwise" /\ overwrite = TRUE
    /\ angle = 0 /\ direction_text = ""
    /\ rotated_count = 0 /\ rotated_ok = {}
    /\ readable = TRUE
    /\ min_width = 50 /\ min_height = 50
    /\ page_num = 0 /\ img_index = 0 /\ image_count = 0
    /\ saved = <<>> /\ skipped = {}
    /\ compression_level = "medium"

\* create_pdf_from_images called on its own
InitCreate ==
    /\ pc = "create_start"
    /\ path_given = TRUE
    /\ in_main = FALSE
    /\ reported = {}
    /\ CreateInputs

\* lines 208-260: the directory check, glob, the page pattern, the sort, and
\* the new empty document; None when there is nothing to assemble
CreateStart ==
    /\ command = "create_pdf" /\ pc = "create_start"
    /\ LET found == GlobImages(directory, image_extensions)
           pairs == SortPages(MatchingPairs(found))
       IN  /\ image_files' = IF path_exists THEN found ELSE image_files
           /\ page_images' = IF path_exists THEN pairs ELSE page_images
           /\ IF path_exists /\ pairs # <<>>
              THEN pc' = "create_loop" /\ UNCHANGED ret
              ELSE pc' = "returned" /\ ret' = RetNone
    /\ reported' = IF ~path_exists
                    THEN reported \cup {"Directory not found"}
                    ELSE reported
    /\ pdf_document' = <<>>
    /\ pos' = 1
    /\ UNCHANGED <<command, path_exists, directory, directory0, errors,
                   output_file, readable, min_width, min_height, page_num,
                   img_index, image_count, saved, skipped, rotateVars,
                   advVars, argVars>>

\* the file the loop is at
Current == directory[Lookup(directory, page_images[pos].image_path)]

\* lines 262-289: the image decodes, a page of its size is made and the image
\* is put on it
CreateAddPage ==
    /\ command = "create_pdf" /\ pc = "create_loop"
    /\ pos <= Len(page_images)
    /\ Current.data.fault = "none"
    /\ pdf_document' = Append(pdf_document,
                           [page_num |-> page_images[pos].page_num,
                            src |-> page_images[pos].image_path,
                            image |-> TRUE])
    /\ pos' = pos + 1
    /\ UNCHANGED <<command, pc, ret, path_exists, directory, directory0,
                   image_files, errors, createVars, notCreateVars>>

\* lines 265-281 and 291-293: Image.open, convert or save raises before the
\* page is made; the error is printed and the loop goes on
CreateDecodeFails ==
    /\ command = "create_pdf" /\ pc = "create_loop"
    /\ pos <= Len(page_images)
    /\ Current.data.fault = "decode"
    /\ errors' = errors \cup {pos}
    /\ pos' = pos + 1
    /\ UNCHANGED <<command, pc, ret, path_exists, directory, directory0,
                   image_files, pdf_document, createVars, notCreateVars>>

\* lines 284 and 291-293: new_page raises, no page is made
CreateNewPageFails ==
    /\ command = "create_pdf" /\ pc = "create_loop"
    /\ pos <= Len(page_images)
    /\ Current.data.fault = "new_page"
    /\ errors' = errors \cup {pos}
    /\ pos' = pos + 1
    /\ UNCHANGED <<command, pc, ret, path_exists, directory, directory0,
                   image_files, pdf_document, createVars, notCreateVars>>

\* lines 284-287 and 291-293: insert_image raises after new_page has added
\* the page to the document; the except clause does not take the page back
CreateInsertFails ==
    /\ command = "create_pdf" /\ pc = "create_loop"
    /\ pos <= Len(page_images)
    /\ Current.data.fault = "insert_image"
    /\ pdf_document' = Append(pdf_document,
                           [page_num |-> page_images[pos].page_num,
                            src |-> page_images[pos].image_path,
                            image |-> FALSE])
    /\ errors' = errors \cup {pos}
    /\ pos' = pos + 1
    /\ UNCHANGED <<command, pc, ret, path_exists, directory, directory0,
                   image_files, createVars, notCreateVars>>

\* lines 295-298: no page in the document: close it and return None
CreateNoPages ==
    /\ command = "create_pdf" /\ pc = "create_loop"
    /\ pos > Len(page_images)
    /\ Len(pdf_document) = 0
    /\ pc' = "returned"
    /\ ret' = RetNone
    /\ UNCHANGED <<command, path_exists, dirVars, pdf_document, createVars,
                   notCreateVars>>

\* lines 300-307: the document is saved and its path returned
CreateSave ==
    /\ command = "create_pdf" /\ pc = "create_loop"
    /\ pos > Len(page_images)
    /\ Len(pdf_document) # 0
    /\ output_file' = Saved(pdf_document)
    /\ pc' = "returned"
    /\ ret' = RetPath
    /\ UNCHANGED <<command, path_exists, dirVars, pdf_document, page_images,
                   notCreateVars>>

\* lines 301 and 309-311: pdf_document.save raises; the outer except returns
\* None, and the file is not there or is left partly written
CreateSaveFails ==
    /\ command = "create_pdf" /\ pc = "create_loop"
    /\ pos > Len(page_images)
    /\ Len(pdf_document) # 0
    /\ output_file' \in {Absent, Partial}
    /\ pc' = "returned"
    /\ ret' = RetNone
    /\ UNCHANGED <<command, path_exists, dirVars, pdf_document, page_images,
                   notCreateVars>>

NextCreate ==
    \/ CreateStart
    \/ CreateAddPage
    \/ CreateDecodeFails
    \/ CreateNewPageFails
    \/ CreateInsertFails
    \/ CreateNoPages
    \/ CreateSave
    \/ CreateSaveFails

SpecCreate == InitCreate /\ [][NextCreate]_vars

\* the page number each name of CreateNames carries, read by eye: -1 for the
\* name that carries none
ExpectedPage(nm) ==
    CASE nm.stem = <<"a", "_page", "2", "_", "x">> -> 2
      [] nm.stem = <<"a", "_page", "1", "0", "_", "x">> -> 10
      [] nm.stem = <<"b", "_page", "2", "_", "y">> -> 2
      [] nm.stem = <<"d", "_PAGE", "1", "_", "x">> -> 1
      [] OTHER -> -1

\* position of the name nm in the list of names files, 0 when it is not there
ListPos(files, nm) ==
    IF \E j \in 1..Len(files) : files[j] = nm
    THEN CHOOSE j \in 1..Len(files) : files[j] = nm
    ELSE 0

\* the pages of the document made from the file named nm
PagesOf(nm) == {p \in 1..Len(pdf_document) : pdf_document[p].src = nm}

\* C5: the pages of the document are in ascending order of the number in
\* their file names, read as a number (1, 2, 10); pages with equal numbers
\* are in the order of the file list, and a file whose number another file
\* also has still gets its own page.
C5_NumericStableOrder ==
    command = "create_pdf" =>
        /\ \A p \in 1..Len(pdf_document) :
              pdf_document[p].page_num = ExpectedPage(pdf_document[p].src)
        /\ \A p, q \in 1..Len(pdf_document) :
              p < q =>
                 LET a == pdf_document[p].src
                     b == pdf_document[q].src
                 IN  /\ ExpectedPage(a) <= ExpectedPage(b)
                     /\ ExpectedPage(a) = ExpectedPage(b) =>
                           ListPos(image_files, a) < ListPos(image_files, b)
        /\ (pc = "returned" /\ pos > Len(page_images)) =>
              \A j \in 1..Len(image_files) :
                 (/\ ExpectedPage(image_files[j]) # -1
                  /\ directory[Lookup(directory, image_files[j])].data.fault
                        = "none")
                 => Cardinality(PagesOf(image_files[j])) = 1

\* a document of three pages numbered 2, 2, 10 made from a list that had the
\* file of page 10 first
C5_Witness ==
    /\ command = "create_pdf" /\ pc = "returned"
    /\ ret = RetPath
    /\ Len(pdf_document) = 3
    /\ pdf_document[1].page_num = 2 /\ pdf_document[2].page_num = 2
    /\ pdf_document[3].page_num = 10
    /\ ExpectedPage(image_files[1]) = 10

\* a name holds, somewhere before its extension, one of tags, then digits,
\* then an underscore
HasPageNumber(nm, tags) ==
    \E i, j \in 1..Len(nm.stem) :
        /\ i < j
        /\ nm.stem[i] \in tags
        /\ \A m \in (i + 1)..j : nm.stem[m] \in Digits
        /\ j + 1 <= Len(nm.stem)
        /\ nm.stem[j + 1] \in UnderscoreParts

\* the directory as called, without file j
Without(j) == SelectSeq(directory0, LAMBDA f : f # directory0[j])

\* that files whose names do not hold one of tags, digits and an underscore
\* are left out, and that taking such a file away changes nothing
Excluded(tags) ==
    /\ \A p \in 1..Len(pdf_document) :
          HasPageNumber(pdf_document[p].src, tags)
    /\ {page_images[e].image_path : e \in 1..Len(page_images)} =
          {image_files[j] : j \in {x \in 1..Len(image_files) :
                                      HasPageNumber(image_files[x], tags)}}
    \* page_images is set once, before the loop: compared there
    /\ pos = 1 =>
          /\ \A j \in 1..Len(directory0) :
                ~HasPageNumber(directory0[j].name, tags) =>
                    PageImages(Without(j)) = page_images
          /\ PageImages(SelectSeq(directory0,
                           LAMBDA f : HasPageNumber(f.name, tags))) = page_images

\* C6, as claimed: a file whose name does not hold _page<digits>_ is not in
\* the document, and the pairs the pages are made from are the same with
\* such a file taken out of the directory.
C6_NonMatchingExcluded ==
    (command = "create_pdf" /\ pc # "create_start" /\ path_exists) =>
        Excluded({"_page"})

\* C6, amended: the same, for the names that hold _page<digits>_ in no
\* letter case (_page, _PAGE): the pattern is compiled with re.IGNORECASE.
C6_NonMatchingExcludedAnyCase ==
    (command = "create_pdf" /\ pc # "create_start" /\ path_exists) =>
        Excluded({"_page", "_PAGE"})

\* a directory of a matching file, the file c_page3.png that does not match
\* and the file d_PAGE1_x.png that matches by letter case only: two pages
C6_Witness ==
    /\ command = "create_pdf" /\ pc = "returned"
    /\ Len(directory0) = 3
    /\ \E j \in 1..3 : ~HasPageNumber(directory0[j].name, {"_page", "_PAGE"})
    /\ \E j \in 1..3 : directory0[j].name.stem[2] = "_PAGE"
    /\ Len(pdf_document) = 2
    /\ ret = RetPath

\* C7: when the loop is over, an image reported as failed has no page in the
\* document, and the document has as many pages as images went through
\* without error.
C7_FailedImageAddsNoPage ==
    (command = "create_pdf" /\ pc = "returned" /\ pos > Len(page_images)) =>
        /\ \A e \in errors : PagesOf(page_images[e].image_path) = {}
        /\ Len(pdf_document) = Len(page_images) - Cardinality(errors)

\* C8: when no image was added as a page, create_pdf_from_images returns None
\* and there is no output file; and a saved file always has a page.
C8_NoPageNoFile ==
    (command = "create_pdf" /\ pc = "returned") =>
        /\ errors = 1..Len(page_images) =>
              (ret = RetNone /\ output_file = Absent)
        /\ output_file.state = "saved" => output_file.pages # <<>>

----------------------------------------------------------------------------
(* compress_pdf_advanced, src/main.py:396-531 *)

\* a quotient n/d of two numbers, d > 0, kept as the pair: the scale factors
\* are compared and multiplied exactly
RatLess(a, b) == a[1] * b[2] < b[1] * a[2]
RatEq(a, b) == a[1] * b[2] = b[1] * a[2]

\* min(a, b, c) of Python: the first of the least
Min3(a, b, c) ==
    LET ab == IF RatLess(b, a) THEN b ELSE a
    IN  IF RatLess(c, ab) THEN c ELSE ab

\* line 449: max_width / page_width if page_width > max_width else 1.0
ScaleX(mw, pw) == IF pw > mw THEN <<mw, pw>> ELSE <<1, 1>>

\* the mutant: the comparison is the wrong way round
ScaleYFlipped(mh, ph) == IF ph < mh THEN <<mh, ph>> ELSE <<1, 1>>

\* line 450: max_height / page_height if page_height > max_height else 1.0
ScaleY(mh, ph) == IF ph > mh THEN <<mh, ph>> ELSE <<1, 1>>

\* the mutant: the quotients are taken whether or not the page fits
RenderScaleUnguarded(page, mw, mh) ==
    Min3(<<mw, page.width>>, <<mh, page.height>>, <<2, 1>>)

\* line 451: scale = min(scale_x, scale_y, 2.0)
RenderScale(page, mw, mh) ==
    Min3(ScaleX(mw, page.width), ScaleY(mh, page.height), <<2, 1>>)

\* the pixels of a length of len points rendered at scale: the pixmap covers
\* the scaled page, so the length is rounded up
Pixels(len, scale) == (len * scale[1] + scale[2] - 1) \div scale[2]

\* lines 469-490: what is done to the rendered page at a quality
Quantized(q) == q < 50
\* the blur under the threshold of the quantization
BlurredWithQuantized(q) == q < 50
Blurred(q) == q < 40
Subsampling(q) == IF q < 50 THEN 2 ELSE 0

\* widths and heights of the pages, in points
PageDims == {150, 200, 500}
AdvPages == [width : PageDims, height : PageDims]
\* the max_width and max_height of the runs
MaxDims == {199, 200, 400}
\* the image_quality of the runs
Qualities == {0, 1, 39, 40, 49, 50, 99, 100, 101}

AdvInputs ==
    /\ command = "compress_adv"
    /\ ret = Running
    /\ path_exists \in BOOLEAN
    /\ readable \in (IF path_exists THEN BOOLEAN ELSE {FALSE})
    /\ pdf_document \in (IF readable
                         THEN UNION {[1..n -> AdvPages] : n \in 0..MaxAdvPages}
                         ELSE {<<>>})
    /\ image_quality \in Qualities
    /\ max_width \in MaxDims
    /\ max_height \in MaxDims
    /\ new_pdf = <<>>
    /\ page_num = 0
    /\ output_file = Absent
    /\ page_images = <<>>
    /\ directory = <<>> /\ directory0 = <<>> /\ image_files = <<>>
    /\ pos = 1 /\ errors = {}
    /\ direction = "anticlockwise" /\ overwrite = TRUE
    /\ angle = 0 /\ direction_text = ""
    /\ rotated_count = 0 /\ rotated_ok = {}
    /\ min_width = 50 /\ min_height = 50
    /\ img_index = 0 /\ image_count = 0
    /\ saved = <<>> /\ skipped = {}
    /\ compression_level = "medium"

\* compress_pdf_advanced called on its own
InitAdv ==
    /\ pc = "adv_start"
    /\ path_given = TRUE
    /\ in_main = FALSE
    /\ reported = {}
    /\ AdvInputs

\* lines 413-438: None when the file is not there; os.path.getsize and
\* fitz.open are inside the try block, so a file that does not open is
\* reported by the except clause and None is returned
AdvStart ==
    /\ command = "compress_adv" /\ pc = "adv_start"
    /\ IF path_exists /\ readable
       THEN pc' = "adv_loop" /\ UNCHANGED ret
       ELSE pc' = "returned" /\ ret' = RetNone
    /\ reported' = IF ~path_exists
                    THEN reported \cup {"PDF file not found"}
                    ELSE reported
    /\ new_pdf' = <<>>
    /\ page_num' = 0
    /\ UNCHANGED <<command, path_exists, readable, pdf_document,
                   image_quality, max_width, max_height, output_file,
                   errors, min_width, min_height, img_index, image_count,
                   saved, skipped, directory, directory0, image_files, pos,
                   rotateVars, page_images, argVars>>

\* the page put in front of the pages of new_pdf
AdvPageInFront ==
    /\ command = "compress_adv" /\ pc = "adv_loop"
    /\ page_num < Len(pdf_document)
    /\ LET page == pdf_document[page_num + 1]
           scale == RenderScale(page, max_width, max_height)
       IN  new_pdf' = <<[src |-> page_num + 1,
                        scale |-> scale,
                        pix_width |-> Pixels(page.width, scale),
                        pix_height |-> Pixels(page.height, scale),
                        quantized |-> Quantized(image_quality),
                        blurred |-> Blurred(image_quality),
                        quality |-> image_quality,
                        subsampling |-> Subsampling(image_quality)]>>
                      \o new_pdf
    /\ page_num' = page_num + 1
    /\ UNCHANGED <<command, pc, ret, path_exists, readable, pdf_document,
                   image_quality, max_width, max_height, output_file,
                   errors, notAdvVars>>

\* lines 440-505: one page is rendered at its scale, recompressed and put on
\* a new page of new_pdf
AdvPage ==
    /\ command = "compress_adv" /\ pc = "adv_loop"
    /\ page_num < Len(pdf_document)
    /\ LET page == pdf_document[page_num + 1]
           scale == RenderScale(page, max_width, max_height)
       IN  new_pdf' = Append(new_pdf,
               [src |-> page_num + 1,
                scale |-> scale,
                pix_width |-> Pixels(page.width, scale),
                pix_height |-> Pixels(page.height, scale),
                quantized |-> Quantized(image_quality),
                blurred |-> Blurred(image_quality),
                quality |-> image_quality,
                subsampling |-> Subsampling(image_quality)])
    /\ page_num' = page_num + 1
    /\ UNCHANGED <<command, pc, ret, path_exists, readable, pdf_document,
                   image_quality, max_width, max_height, output_file,
                   errors, notAdvVars>>

\* the failure of a page caught inside the loop, which goes on
AdvPageFailsGoesOn ==
    /\ command = "compress_adv" /\ pc = "adv_loop"
    /\ page_num < Len(pdf_document)
    /\ errors' = errors \cup {page_num + 1}
    /\ page_num' = page_num + 1
    /\ UNCHANGED <<command, pc, ret, path_exists, readable, pdf_document,
                   advVars, output_file, notAdvVars>>

\* lines 457-500 and 529-531: rendering or encoding the page raises; the
\* except clause of the whole function prints the error and returns None
AdvPageFails ==
    /\ command = "compress_adv" /\ pc = "adv_loop"
    /\ page_num < Len(pdf_document)
    /\ errors' = errors \cup {page_num + 1}
    /\ pc' = "returned"
    /\ ret' = RetNone
    /\ UNCHANGED <<command, path_exists, readable, pdf_document, page_num,
                   advVars, output_file, notAdvVars>>

\* lines 507-527: new_pdf is saved and the path returned
AdvSave ==
    /\ command = "compress_adv" /\ pc = "adv_loop"
    /\ page_num >= Len(pdf_document)
    /\ output_file' = Saved(new_pdf)
    /\ pc' = "returned"
    /\ ret' = RetPath
    /\ UNCHANGED <<command, path_exists, readable, pdf_document, page_num,
                   advVars, errors, notAdvVars>>

\* lines 508-514 and 529-531: new_pdf.save raises (a document of no pages
\* cannot be saved, or the file cannot be written); None is returned
AdvSaveFails ==
    /\ command = "compress_adv" /\ pc = "adv_loop"
    /\ page_num >= Len(pdf_document)
    /\ output_file' \in {Absent, Partial}
    /\ pc' = "returned"
    /\ ret' = RetNone
    /\ UNCHANGED <<command, path_exists, readable, pdf_document, page_num,
                   advVars, errors, notAdvVars>>

NextAdv ==
    \/ AdvStart
    \/ AdvPage
    \/ AdvPageFails
    \/ AdvSave
    \/ AdvSaveFails

SpecAdv == InitAdv /\ [][NextAdv]_vars

\* s is the least of the quotients of S
IsLeast(s, S) ==
    /\ \E x \in S : RatEq(s, x)
    /\ \A x \in S : ~RatLess(x, s)

\* the input page a page of new_pdf was rendered from
Source(np) == pdf_document[np.src]

\* C9, as claimed: the scale of every page is
\* min(max_width/pageWidth, max_height/pageHeight, 2.0).
C9_ScaleIsMinWith2 ==
    command = "compress_adv" =>
        \A p \in 1..Len(new_pdf) :
            IsLeast(new_pdf[p].scale,
                    {<<max_width, Source(new_pdf[p]).width>>,
                     <<max_height, Source(new_pdf[p]).height>>,
                     <<2, 1>>})

\* C9, amended: the scale of every page is
\* min(max_width/pageWidth, max_height/pageHeight, 1.0).
C9_ScaleIsMinWith1 ==
    command = "compress_adv" =>
        \A p \in 1..Len(new_pdf) :
            IsLeast(new_pdf[p].scale,
                    {<<max_width, Source(new_pdf[p]).width>>,
                     <<max_height, Source(new_pdf[p]).height>>,
                     <<1, 1>>})

\* a page narrower and lower than the maxima, for which the claimed formula
\* gives more than 1, next to a page that is scaled down
C9_Witness ==
    /\ command = "compress_adv" /\ pc = "returned" /\ ret = RetPath
    /\ Len(new_pdf) = 2
    /\ Source(new_pdf[1]).width < max_width
    /\ Source(new_pdf[1]).height < max_height
    /\ RatEq(new_pdf[1].scale, <<1, 1>>)
    /\ RatLess(new_pdf[2].scale, <<1, 1>>)

\* C10: no page is scaled up: the scale of every page is at most 1, it is 1
\* when the page is no wider than max_width and no higher than max_height,
\* and the scaled page, as the pixmap rendered from it, is no wider than
\* max_width and no higher than max_height.
C10_NeverUpscales ==
    command = "compress_adv" =>
        \A p \in 1..Len(new_pdf) :
            LET page == Source(new_pdf[p])
                s == new_pdf[p].scale
            IN  /\ ~RatLess(<<1, 1>>, s)
                /\ (page.width <= max_width /\ page.height <= max_height)
                      => RatEq(s, <<1, 1>>)
                /\ page.width * s[1] <= max_width * s[2]
                /\ page.height * s[1] <= max_height * s[2]
                /\ new_pdf[p].pix_width <= max_width
                /\ new_pdf[p].pix_height <= max_height

\* a page that fits is rendered at scale 1 and a page that is too high is
\* rendered max_height high
C10_Witness ==
    /\ command = "compress_adv" /\ pc = "returned" /\ ret = RetPath
    /\ \E p \in 1..Len(new_pdf) :
          /\ Source(new_pdf[p]).width <= max_width
          /\ Source(new_pdf[p]).height <= max_height
          /\ new_pdf[p].pix_width = Source(new_pdf[p]).width
    /\ \E p \in 1..Len(new_pdf) :
          /\ Source(new_pdf[p]).height > max_height
          /\ new_pdf[p].pix_height = max_height
          /\ new_pdf[p].pix_width < Source(new_pdf[p]).width

\* C11: for every image_quality of 1..100 the rendered page is quantized
\* exactly when the quality is below 50, blurred exactly when it is below 40
\* and saved with chroma subsampling 2 exactly when it is below 50 and 0
\* otherwise; so quality 99 triggers neither and no page is blurred without
\* being quantized.
C11_QualityThresholds ==
    (command = "compress_adv" /\ image_quality \in 1..100) =>
        \A p \in 1..Len(new_pdf) :
            LET np == new_pdf[p]
            IN  /\ np.quality = image_quality
                /\ np.quantized <=> (image_quality < 50)
                /\ np.blurred <=> (image_quality < 40)
                /\ np.subsampling = 2 <=> (image_quality < 50)
                /\ np.subsampling = 0 <=> (image_quality >= 50)
                /\ (image_quality = 99) => (~np.quantized /\ ~np.blurred)
                /\ np.blurred => np.quantized

\* a page rendered at quality 40: quantized, subsampled, not blurred
C11_Witness ==
    /\ command = "compress_adv" /\ pc = "returned" /\ ret = RetPath
    /\ image_quality = 40
    /\ Len(new_pdf) >= 1
    /\ new_pdf[1].quantized /\ ~new_pdf[1].blurred
    /\ new_pdf[1].subsampling = 2

\* C12: when rendering or encoding a page fails the whole operation is
\* over: the function has returned None, no page after the failing one was
\* processed, and the output PDF was not written, not even in part.
C12_PageFailureAborts ==
    (command = "compress_adv" /\ errors # {}) =>
        /\ pc = "returned"
        /\ ret = RetNone
        /\ output_file = Absent
        /\ \A e \in errors :
              /\ page_num = e - 1
              /\ \A p \in 1..Len(new_pdf) : new_pdf[p].src < e

\* the second page fails after the first was put in new_pdf
C12_Witness ==
    /\ command = "compress_adv" /\ pc = "returned"
    /\ errors = {2}
    /\ Len(new_pdf) = 1
    /\ Len(pdf_document) = 2

\* C16: when compress_pdf_advanced returns a path, the saved PDF has one
\* page for every page of the input, in the order of the input: page k of
\* the output is the rendering of page k of the input.
C16_OnePagePerInputPage ==
    (command = "compress_adv" /\ pc = "returned" /\ ret = RetPath) =>
        /\ output_file.state = "saved"
        /\ Len(output_file.pages) = Len(pdf_document)
        /\ \A k \in 1..Len(pdf_document) :
              LET out == output_file.pages[k]
              IN  /\ out.src = k
                  /\ out.pix_width = Pixels(pdf_document[k].width, out.scale)
                  /\ out.pix_height = Pixels(pdf_document[k].height, out.scale)

\* two pages of different size, saved in their order
C16_Witness ==
    /\ command = "compress_adv" /\ pc = "returned" /\ ret = RetPath
    /\ Len(pdf_document) = 2
    /\ pdf_document[1] # pdf_document[2]
    /\ output_file.state = "saved"
    /\ Len(output_file.pages) = 2

----------------------------------------------------------------------------
(* compress_pdf, lines 313-394 *)

\* lines 339-355: the settings of pdf_document.save at each level
compression_settings ==
    [level \in {"low", "medium", "high"} |->
        CASE level = "low" ->
                 [deflate |-> FALSE, garbage |-> 1, clean |-> TRUE,
                  pretty |-> FALSE]
          [] level = "medium" ->
                 [deflate |-> TRUE, garbage |-> 2, clean |-> TRUE,
                  pretty |-> FALSE]
          [] level = "high" ->
                 [deflate |-> TRUE, garbage |-> 4, clean |-> TRUE,
                  pretty |-> TRUE]]

\* line 357
ValidLevel(level) == level \in DOMAIN compression_settings

\* the compression_level arguments of the runs
Levels == {"low", "medium", "high", "max"}

CompressInputs ==
    /\ command = "compress"
    /\ ret = Running
    /\ path_exists \in BOOLEAN
    /\ readable \in (IF path_exists THEN BOOLEAN ELSE {FALSE})
    /\ pdf_document \in (IF readable
                         THEN UNION {[1..n -> AdvPages] : n \in 0..MaxAdvPages}
                         ELSE {<<>>})
    /\ compression_level \in Levels
    /\ output_file = Absent
    /\ page_num = 0
    /\ page_images = <<>>
    /\ image_quality = 30 /\ max_width = 1200 /\ max_height = 1600
    /\ new_pdf = <<>>
    /\ directory = <<>> /\ directory0 = <<>> /\ image_files = <<>>
    /\ pos = 1 /\ errors = {}
    /\ direction = "anticlockwise" /\ overwrite = TRUE
    /\ angle = 0 /\ direction_text = ""
    /\ rotated_count = 0 /\ rotated_ok = {}
    /\ min_width = 50 /\ min_height = 50
    /\ img_index = 0 /\ image_count = 0
    /\ saved = <<>> /\ skipped = {}

\* compress_pdf called on its own
InitCompress ==
    /\ pc = "compress_start"
    /\ path_given = TRUE
    /\ in_main = FALSE
    /\ reported = {}
    /\ CompressInputs

notCompressVars == <<min_width, min_height, page_num, img_index, image_count,
                     saved, skipped, dirVars, rotateVars, page_images,
                     advVars, argVars>>

\* lines 325-359: None when the file is not there and None when the level
\* is none of the settings; nothing is opened before
CompressStart ==
    /\ command = "compress" /\ pc = "compress_start"
    /\ IF path_exists /\ ValidLevel(compression_level)
       THEN pc' = "compress_open" /\ UNCHANGED ret
       ELSE pc' = "returned" /\ ret' = RetNone
    /\ reported' = IF ~path_exists
                    THEN reported \cup {"PDF file not found"}
                    ELSE IF ~ValidLevel(compression_level)
                    THEN reported \cup {"Invalid compression level"}
                    ELSE reported
    /\ UNCHANGED <<command, path_exists, readable, pdf_document, output_file,
                   notCompressVars>>

\* lines 361-367 and 392-394: os.path.getsize and fitz.open, inside the try
\* block; a file that does not open is reported and None is returned
CompressOpen ==
    /\ command = "compress" /\ pc = "compress_open"
    /\ IF readable
       THEN pc' = "compress_save" /\ UNCHANGED ret
       ELSE pc' = "returned" /\ ret' = RetNone
    /\ UNCHANGED <<command, path_exists, readable, pdf_document, output_file,
                   reported, notCompressVars>>

\* lines 369-390: the document is saved with the settings of the level and
\* the path is returned
CompressSave ==
    /\ command = "compress" /\ pc = "compress_save"
    /\ output_file' = [state |-> "saved", pages |-> pdf_document,
                       settings |-> compression_settings[compression_level]]
    /\ pc' = "returned"
    /\ ret' = RetPath
    /\ UNCHANGED <<command, path_exists, readable, pdf_document, reported,
                   notCompressVars>>

\* lines 375-378 and 392-394: pdf_document.save raises; None is returned
CompressSaveFails ==
    /\ command = "compress" /\ pc = "compress_save"
    /\ output_file' \in {Absent, Partial}
    /\ pc' = "returned"
    /\ ret' = RetNone
    /\ UNCHANGED <<command, path_exists, readable, pdf_document, reported,
                   notCompressVars>>

NextCompress ==
    \/ CompressStart
    \/ CompressOpen
    \/ CompressSave
    \/ CompressSaveFails

----------------------------------------------------------------------------
(* main, lines 658-799 *)

\* line 660: the commands of the parser
Commands == {"extract", "rotate", "create_pdf", "compress", "compress_adv",
             "help"}
\* line 662: the choices of --direction
DirectionChoices == {"clockwise", "anticlockwise", "cw", "acw"}
\* line 668: the choices of --compression
CompressionChoices == {"low", "medium", "high"}

\* a quality of 0 let through
ValidQualityFrom0(q) == 0 <= q /\ q <= 100

\* line 773: 1 <= args.quality <= 100
ValidQuality(q) == 1 <= q /\ q <= 100

\* line 778, negated
ValidDimensions(mw, mh) == ~(mw < 200 \/ mh < 200)

\* the help command has no argument that matters
HelpInputs ==
    /\ command = "help"
    /\ ret = Running
    /\ path_exists = FALSE
    /\ readable = FALSE /\ pdf_document = <<>>
    /\ compression_level = "medium"
    /\ output_file = Absent
    /\ page_num = 0
    /\ page_images = <<>>
    /\ image_quality = 30 /\ max_width = 1200 /\ max_height = 1600
    /\ new_pdf = <<>>
    /\ directory = <<>> /\ directory0 = <<>> /\ image_files = <<>>
    /\ pos = 1 /\ errors = {}
    /\ direction = "anticlockwise" /\ overwrite = TRUE
    /\ angle = 0 /\ direction_text = ""
    /\ rotated_count = 0 /\ rotated_ok = {}
    /\ min_width = 50 /\ min_height = 50
    /\ img_index = 0 /\ image_count = 0
    /\ saved = <<>> /\ skipped = {}

\* python main.py <command> [path] [options]: the arguments and the files
\* of any of the operations, with the path argument there or not;
\* path_exists is read only when the path is given
MainCalled ==
    /\ pc = "main"
    /\ path_given \in BOOLEAN
    /\ in_main = TRUE
    /\ reported = {}

InitMain ==
    /\ MainCalled
    /\ \/ ExtractInputs
       \/ RotateInputs
       \/ CreateInputs
       \/ CompressInputs
       \/ AdvInputs
       \/ HelpInputs

\* what main itself never assigns
mainKeeps == <<command, ret, path_exists, argVars, extractVars, dirVars,
               rotateVars, createVars, advVars>>

\* lines 659-681: parse_args; an option outside its choices is an error of
\* the parser, which prints the usage and exits with code 2
MainParse ==
    /\ pc = "main" /\ command \in Commands
    /\ IF direction \in DirectionChoices
          /\ compression_level \in CompressionChoices
       THEN pc' = "dispatch" /\ UNCHANGED reported
       ELSE /\ pc' = "parser_error"
            /\ reported' = reported \cup {"invalid choice"}
    /\ UNCHANGED mainKeeps

\* the path check each branch of main starts with: os.path.exists(None)
\* raises TypeError, which nothing catches; a path that is not there is
\* reported and main returns
PathCheck(not_found, start) ==
    IF ~path_given
    THEN pc' = "raised" /\ UNCHANGED reported
    ELSE IF ~path_exists
    THEN pc' = "exited" /\ reported' = reported \cup {not_found}
    ELSE pc' = start /\ UNCHANGED reported

\* lines 683-704: the extract branch up to the call
MainExtract ==
    /\ pc = "dispatch" /\ command = "extract"
    /\ PathCheck("PDF file not found", "extract_start")
    /\ UNCHANGED mainKeeps

\* lines 708-721: the rotate branch up to the call
MainRotate ==
    /\ pc = "dispatch" /\ command = "rotate"
    /\ PathCheck("Directory not found", "rotate_start")
    /\ UNCHANGED mainKeeps

\* lines 725-737: the create_pdf branch up to the call
MainCreate ==
    /\ pc = "dispatch" /\ command = "create_pdf"
    /\ PathCheck("Directory not found", "create_start")
    /\ UNCHANGED mainKeeps

\* lines 744-757: the compress branch up to the call
MainCompress ==
    /\ pc = "dispatch" /\ command = "compress"
    /\ PathCheck("PDF file not found", "compress_start")
    /\ UNCHANGED mainKeeps

\* lines 764-789: the compress_adv branch up to the call: the path, then
\* the quality, then the dimensions
MainAdv ==
    /\ pc = "dispatch" /\ command = "compress_adv"
    /\ IF ~path_given \/ ~path_exists
       THEN PathCheck("PDF file not found", "adv_start")
       ELSE IF ~ValidQuality(image_quality)
       THEN /\ pc' = "exited"
            /\ reported' = reported \cup {"Quality must be between 1 and 100"}
       ELSE IF ~ValidDimensions(max_width, max_height)
       THEN /\ pc' = "exited"
            /\ reported' = reported \cup
                   {"Maximum width and height must be at least 200 pixels"}
       ELSE pc' = "adv_start" /\ UNCHANGED reported
    /\ UNCHANGED mainKeeps

\* lines 796-799: the help text
MainHelp ==
    /\ pc = "dispatch" /\ command = "help"
    /\ pc' = "exited"
    /\ UNCHANGED <<reported, mainKeeps>>

\* lines 706, 723, 739-742, 759-762, 791-794: the operation has returned,
\* main prints how it went and returns
MainReturn ==
    /\ in_main /\ pc = "returned"
    /\ pc' = "exited"
    /\ UNCHANGED <<reported, mainKeeps>>

NextMain ==
    \/ MainParse
    \/ MainExtract
    \/ MainRotate
    \/ MainCreate
    \/ MainCompress
    \/ MainAdv
    \/ MainHelp
    \/ MainReturn
    \/ NextExtract
    \/ NextRotate
    \/ NextCreate
    \/ NextCompress
    \/ NextAdv

\* the command line
SpecMain == InitMain /\ [][NextMain]_vars

\* the runs in which a parameter is validated: the command line of rotate,
\* compress and compress_adv, and rotate_images_in_directory and
\* compress_pdf called on their own
InitParams ==
    \/ MainCalled /\ (RotateInputs \/ CompressInputs \/ AdvInputs)
    \/ InitRotate
    \/ InitCompress

NextParams ==
    \/ MainParse
    \/ MainRotate
    \/ MainCompress
    \/ MainAdv
    \/ MainReturn
    \/ NextRotate
    \/ NextCompress
    \/ NextAdv

SpecParams == InitParams /\ [][NextParams]_vars

\* the level is none of low, medium, high
UnknownLevel == compression_level \notin {"low", "medium", "high"}

\* C13: a run with an invalid parameter (quality outside 1..100, max width
\* or max height below 200 on the command line of compress_adv; an
\* unrecognized compression level of compress; an unrecognized direction of
\* rotate) never gets to the work of the operation: it is never at a place
\* of the code where an input file is opened or a loop runs, no file is
\* written or modified, and nothing but 0 or None is returned; and when the
\* run is over and the path was there, the parameter has been reported.
C13_InvalidParameterStopsBeforeWork ==
    LET badQuality == command = "compress_adv" /\ image_quality \notin 1..100
        badDims == command = "compress_adv"
                   /\ (max_width < 200 \/ max_height < 200)
        badLevel == command = "compress" /\ UnknownLevel
        badDirection == command = "rotate" /\ UnknownDirection
    IN  (badQuality \/ badDims \/ badLevel \/ badDirection) =>
            /\ pc \in {"main", "dispatch", "parser_error", "raised", "exited",
                       "rotate_start", "compress_start", "returned"}
            /\ pc = "raised" => ~path_given
            /\ image_files = <<>> /\ pos = 1
            /\ rotated_ok = {} /\ errors = {}
            /\ new_pdf = <<>> /\ page_num = 0
            /\ directory = directory0
            /\ output_file = Absent
            /\ ret \in {Running, RetInt(0), RetNone}
            /\ (pc \in {"returned", "exited", "parser_error"}
                /\ path_given /\ path_exists) =>
                   /\ badQuality =>
                        "Quality must be between 1 and 100" \in reported
                   /\ (badDims /\ ~badQuality) =>
                        "Maximum width and height must be at least 200 pixels"
                            \in reported
                   /\ badLevel =>
                        reported \cap {"Invalid compression level",
                                       "invalid choice"} # {}
                   /\ badDirection =>
                        reported \cap {"Invalid direction",
                                       "invalid choice"} # {}

\* main has returned from a compress_adv of a PDF that is there and opens,
\* with quality 0, and has reported it
C13_Witness ==
    /\ command = "compress_adv" /\ pc = "exited"
    /\ path_given /\ path_exists /\ readable
    /\ Len(pdf_document) >= 1
    /\ image_quality = 0
    /\ reported = {"Quality must be between 1 and 100"}

\* C14: whatever the command and the input, main ends by returning (exit
\* code 0) with the failure printed: no exception leaves main.
C14_NoUncaughtException ==
    in_main => pc # "raised"

=============================================================================
